---- MODULE Spec2Model ----
(***************************************************************************)
(* A model of the command-line utilities of the repository: the timestamp  *)
(* filter (created_date_filter_openai_messages.py), the metadata filter    *)
(* (metadata_filtering_openai_messages.py), the two image text extractors  *)
(* (image_to_text.py, doc_reader.py) and the assistant thread demo         *)
(* (thread_demo.py).  The scripts are independent programs: Init chooses   *)
(* which one runs and the inputs and environment it runs with.             *)
(***************************************************************************)
EXTENDS Integers, Sequences, FiniteSets, TLC

VARIABLES
    tool,               \* the script that is executed
    pc,                 \* its position
    api_key,            \* the --api-key argument / api_key parameter
    env_key,            \* OPENAI_API_KEY in the environment
    use_input,          \* created_date: whether --input names a file
    source_data,        \* the message list held by the file or by the server
    messages,           \* the script's variable `messages`
    start_timestamp,    \* created_date: parsed --start
    end_timestamp,      \* created_date: parsed --end
    metadata_filters,   \* metadata: the constraint mapping handed to get_messages
    result,             \* the list returned by the filter
    raised,             \* the exception raised by the operation, or NoError
    fetch,              \* outcome of the HTTP fetch: "none", "ok", "failed"
    net_calls,          \* number of network requests issued
    exit_code,          \* the process's exit status once it has ended, else -1
    output,             \* the document written to stdout or to the output file
    err_log,            \* whether an error message was printed
    image_ok,           \* extractors: whether the image file can be read
    text,               \* extractors: the text returned to the caller, or None
    images_left,        \* doc_reader: image files not yet processed
    run_status,         \* thread demo: the run's status on the server
    status,             \* thread demo: run.status as last retrieved
    turn,               \* thread demo: the turn of the conversation (1..3)
    args_start,         \* created_date: the --start argument, a string
    args_end,           \* created_date: the --end argument, a string
    input_shape,        \* created_date: shape of the input file once read
    limit,              \* metadata: the --limit argument
    sent_limit,         \* metadata: params["limit"] of the request, 0 if none
    exports,            \* metadata: number of export files written
    posted,             \* thread demo: user messages posted
    started,            \* thread demo: runs started
    listed              \* thread demo: transcripts fetched

vars == << tool, pc, api_key, env_key, use_input, source_data, messages,
           start_timestamp, end_timestamp, metadata_filters, result, raised,
           fetch, net_calls, exit_code, output, err_log, image_ok, text,
           images_left, run_status, status, turn, args_start, args_end,
           input_shape, limit, sent_limit, exports, posted, started, listed >>

\* the command line of the timestamp script and the input file's shape
cliVars == << args_start, args_end, input_shape >>
\* the request limit and the export of the metadata script
exportVars == << limit, sent_limit, exports >>
\* what the thread demo has done on the server
demoVars == << posted, started, listed >>

----------------------------------------------------------------------------
(* Bounds of the model *)

\* longest message list
MaxLen == 3
\* created_at values are 1..MaxTime; bounds are drawn from 0..MaxTime+1
MaxTime == 2
\* most image files in doc_reader's test_images directory
MaxImages == 2

----------------------------------------------------------------------------
(* Python values *)

\* Python's None where a string or an object is expected
None == "None"
\* what message.get("created_at") yields for a message without the key
\* (and for a JSON null): a value that is no timestamp
NoCreatedAt == -1
NoError == "none"
\* nothing written to stdout or to an output file yet
NoOutput == [target |-> "none", data |-> << >>, count |-> 0]

\* `not x` for an optional string
Falsy(x) == x = None \/ x = ""

Timestamps == 1 .. MaxTime
BoundValues == 0 .. (MaxTime + 1)

\* Messages of the timestamp script: mappings with or without created_at
TimedMessages ==
    {[id |-> "msg"]} \cup
    {[id |-> "msg", created_at |-> t] : t \in Timestamps \cup {NoCreatedAt}}

SeqsUpTo(S, n) == UNION {[1 .. k -> S] : k \in 0 .. n}

----------------------------------------------------------------------------
(* created_date_filter_openai_messages.py *)

\* message.get("created_at")
GetCreatedAt(message) ==
    IF "created_at" \in DOMAIN message THEN message.created_at ELSE NoCreatedAt

\* start <= created_at <= end; comparing an int with None is a TypeError
InRange(s, t, e) ==
    IF t = NoCreatedAt THEN "TypeError"
    ELSE IF s <= t /\ t <= e THEN "yes" ELSE "no"

\* the loop body with the upper bound taken as exclusive
FilterStepExclusiveEnd(acc, message, s, e) ==
    LET created_at == GetCreatedAt(message)
    IN  IF acc.raised # NoError THEN acc
        ELSE IF created_at = NoCreatedAt THEN acc
        ELSE IF s <= created_at /\ created_at < e
             THEN [acc EXCEPT !.filtered = Append(acc.filtered, message)]
             ELSE acc

\* the loop body inserting at the front of the list instead of appending
FilterStepPrepend(acc, message, s, e) ==
    LET created_at == GetCreatedAt(message)
    IN  IF acc.raised # NoError THEN acc
        ELSE IF created_at = NoCreatedAt THEN acc
        ELSE IF InRange(s, created_at, e) = "yes"
             THEN [acc EXCEPT !.filtered = << message >> \o acc.filtered]
             ELSE acc

\* One iteration of the loop of filter_messages: the accumulator is
\* [filtered, raised]
FilterStep(acc, message, s, e) ==
    LET created_at == GetCreatedAt(message)
    IN  IF acc.raised # NoError THEN acc
        ELSE IF created_at = NoCreatedAt THEN acc
        ELSE LET c == InRange(s, created_at, e)
             IN  IF c = "TypeError" THEN [acc EXCEPT !.raised = "TypeError"]
                 ELSE IF c = "yes"
                      THEN [acc EXCEPT !.filtered = Append(acc.filtered, message)]
                      ELSE acc

RECURSIVE FilterLoop(_, _, _, _)
FilterLoop(acc, msgs, s, e) ==
    IF msgs = << >> THEN acc
    ELSE FilterLoop(FilterStep(acc, Head(msgs), s, e), Tail(msgs), s, e)

\* filter_messages(messages, start_timestamp, end_timestamp)
filter_messages(msgs, s, e) ==
    FilterLoop([filtered |-> << >>, raised |-> NoError], msgs, s, e)

\* The credentials a command line and an environment can hold
Keys == {None, "", "sk-key"}

\* Values of the variables a script does not use
IdleCredentials == api_key = None /\ env_key = None
IdleFilterVars ==
    /\ use_input = FALSE
    /\ source_data = << >>
    /\ messages = << >>
    /\ start_timestamp = 0
    /\ end_timestamp = 0
    /\ metadata_filters = << >>
    /\ result = << >>
    /\ fetch = "none"
    /\ output = NoOutput
IdleImageVars == image_ok = TRUE /\ text = None /\ images_left = 0
IdleRunVars == run_status = "none" /\ status = "none" /\ turn = 0
NothingHappened ==
    raised = NoError /\ net_calls = 0 /\ exit_code = -1 /\ err_log = FALSE
IdleCli == args_start = << >> /\ args_end = << >> /\ input_shape = "none"
IdleExport == limit = 100 /\ sent_limit = 0 /\ exports = 0
IdleDemo == posted = 0 /\ started = 0 /\ listed = 0

\* Strings of the command line are sequences of pieces: single characters,
\* and the two longer pieces below, which are never split
Digits == << "0", "1", "2", "3", "4", "5", "6", "7", "8", "9" >>
IsDigit(c) == \E d \in 1 .. 10 : Digits[d] = c
DigitValue(c) == (CHOOSE d \in 1 .. 10 : Digits[d] = c) - 1
\* the first second(s) of the epoch, up to the last digit of the seconds
EpochPrefix == "1970-01-01T00:00:0"
UtcOffset == "+00:00"

RECURSIVE DecimalValue(_, _)
DecimalValue(str, acc) ==
    IF str = << >> THEN acc
    ELSE DecimalValue(Tail(str), 10 * acc + DigitValue(Head(str)))

\* int(timestamp_str): the value of a string of decimal digits, ValueError
\* for any other string of the model
PyInt(str) ==
    IF str # << >> /\ \A i \in 1 .. Len(str) : IsDigit(str[i])
    THEN [value |-> DecimalValue(str, 0), raised |-> NoError]
    ELSE [value |-> 0, raised |-> "ValueError"]

\* timestamp_str.replace('Z', '+00:00')
ReplaceZ(str) ==
    [i \in 1 .. Len(str) |-> IF str[i] = "Z" THEN UtcOffset ELSE str[i]]

\* int(datetime.fromisoformat(s).timestamp()) for the ISO strings of the
\* model, 1970-01-01T00:00:0d+00:00; ValueError for any other string
FromIsoFormat(str) ==
    IF /\ Len(str) = 3
       /\ str[1] = EpochPrefix /\ IsDigit(str[2]) /\ str[3] = UtcOffset
    THEN [value |-> DigitValue(str[2]), raised |-> NoError]
    ELSE [value |-> 0, raised |-> "ValueError"]

\* (variant: a string that parses neither way is read as 0)
ParseTimestampLenient(timestamp_str) ==
    LET as_int == PyInt(timestamp_str)
        as_iso == FromIsoFormat(ReplaceZ(timestamp_str))
    IN  IF as_int.raised = NoError THEN as_int
        ELSE IF as_iso.raised = NoError THEN as_iso
        ELSE [value |-> 0, raised |-> NoError]
\* parse_timestamp(timestamp_str): try int(), on ValueError the ISO format
parse_timestamp(timestamp_str) ==
    LET as_int == PyInt(timestamp_str)
    IN  IF as_int.raised = NoError THEN as_int
        ELSE FromIsoFormat(ReplaceZ(timestamp_str))

\* The values --start and --end are drawn from
DecimalArgs == {<< Digits[n + 1] >> : n \in BoundValues}
IsoArgs == {<< EpochPrefix, "1", "Z" >>, << EpochPrefix, "2", UtcOffset >>}
MalformedArgs ==
    {<< >>, << "1", "x" >>, << EpochPrefix, "1", "Z", "Z" >>}
TimestampArgs == DecimalArgs \cup IsoArgs \cup MalformedArgs

\* main() after parser.parse_args()
InitCreatedDate ==
    /\ tool = "created_date_filter"
    /\ pc = "parse_start"
    /\ args_start \in TimestampArgs
    /\ args_end \in TimestampArgs
    /\ input_shape = "none"
    /\ use_input \in BOOLEAN
    /\ IF use_input THEN IdleCredentials
       ELSE api_key \in Keys /\ env_key \in Keys
    /\ start_timestamp = 0
    /\ end_timestamp = 0
    /\ source_data = << >>
    /\ messages = << >>
    /\ metadata_filters = << >>
    /\ result = << >>
    /\ fetch = "none"
    /\ output = NoOutput
    /\ IdleImageVars /\ IdleRunVars /\ NothingHappened
    /\ IdleExport /\ IdleDemo

\* main(): start_timestamp = parse_timestamp(args.start); a ValueError is
\* not caught and ends the process
ParseStart ==
    /\ tool = "created_date_filter" /\ pc = "parse_start"
    /\ LET parsed == parse_timestamp(args_start)
       IN  IF parsed.raised # NoError
           THEN /\ raised' = parsed.raised
                /\ exit_code' = 1
                /\ pc' = "exited"
                /\ UNCHANGED start_timestamp
           ELSE /\ start_timestamp' = parsed.value
                /\ pc' = "parse_end"
                /\ UNCHANGED << raised, exit_code >>
    /\ UNCHANGED << tool, cliVars, exportVars, demoVars, api_key, env_key,
                    use_input, source_data, messages, end_timestamp,
                    metadata_filters, result, fetch, net_calls, output,
                    err_log, image_ok, text, images_left, run_status, status,
                    turn >>

\* main(): end_timestamp = parse_timestamp(args.end)
ParseEnd ==
    /\ tool = "created_date_filter" /\ pc = "parse_end"
    /\ LET parsed == parse_timestamp(args_end)
       IN  IF parsed.raised # NoError
           THEN /\ raised' = parsed.raised
                /\ exit_code' = 1
                /\ pc' = "exited"
                /\ UNCHANGED end_timestamp
           ELSE /\ end_timestamp' = parsed.value
                /\ pc' = "get_messages"
                /\ UNCHANGED << raised, exit_code >>
    /\ UNCHANGED << tool, cliVars, exportVars, demoVars, api_key, env_key,
                    use_input, source_data, messages, start_timestamp,
                    metadata_filters, result, fetch, net_calls, output,
                    err_log, image_ok, text, images_left, run_status, status,
                    turn >>

\* json.load(f) gives a list or a dict
JsonArray(items) == [kind |-> "array", items |-> items]
JsonWrapper(items) == [kind |-> "object", data |-> items]

\* `if isinstance(messages, dict) and "data" in messages:
\*      messages = messages["data"]`
UnwrapData(loaded) ==
    IF loaded.kind = "object" /\ "data" \in DOMAIN loaded
    THEN loaded.data
    ELSE loaded.items

\* main(), `if args.input:` branch: json.load of a bare array or of a
\* {"data": [...]} wrapper
LoadInput ==
    /\ tool = "created_date_filter" /\ pc = "get_messages" /\ use_input
    /\ \E file \in SeqsUpTo(TimedMessages, MaxLen), wrapped \in BOOLEAN :
          LET loaded == IF wrapped THEN JsonWrapper(file) ELSE JsonArray(file)
          IN  /\ source_data' = file
              /\ input_shape' = IF wrapped THEN "wrapper" ELSE "array"
              /\ messages' = UnwrapData(loaded)
    /\ pc' = "filter"
    /\ UNCHANGED << tool, args_start, args_end, exportVars, demoVars, api_key,
                    env_key, use_input, start_timestamp,
                    end_timestamp, metadata_filters, result, raised, fetch,
                    net_calls, exit_code, output, err_log, image_ok, text,
                    images_left, run_status, status, turn >>

\* get_messages_from_api: the key the request is made with
\* (`if api_key is None: api_key = os.environ.get(...)`)
ResolveKeyCreatedDate(arg, env) == IF arg = None THEN env ELSE arg

\* `if not api_key: raise ValueError`
KeyRejectedCreatedDate(key) == Falsy(key)

\* main(), else branch: get_messages_from_api(args.api_key) inside
\* try/except Exception -> print to stderr, sys.exit(1)
FetchFromApi ==
    /\ tool = "created_date_filter" /\ pc = "get_messages" /\ ~use_input
    /\ LET key == ResolveKeyCreatedDate(api_key, env_key)
       IN  IF KeyRejectedCreatedDate(key)
           THEN \* ValueError, caught by main
                /\ raised' = "ValueError"
                /\ err_log' = TRUE
                /\ exit_code' = 1
                /\ pc' = "exited"
                /\ UNCHANGED << source_data, messages, fetch, net_calls >>
           ELSE /\ net_calls' = net_calls + 1
                /\ \/ \* requests.get or raise_for_status raises
                      /\ fetch' = "failed"
                      /\ raised' = "RequestException"
                      /\ err_log' = TRUE
                      /\ exit_code' = 1
                      /\ pc' = "exited"
                      /\ UNCHANGED << source_data, messages >>
                   \/ \* response.json().get("data", []): a body without
                      \* "data" reads as the empty list
                      /\ \E body \in SeqsUpTo(TimedMessages, MaxLen) :
                            /\ source_data' = body
                            /\ messages' = body
                      /\ fetch' = "ok"
                      /\ pc' = "filter"
                      /\ UNCHANGED << raised, err_log, exit_code >>
    /\ UNCHANGED << tool, cliVars, exportVars, demoVars, api_key, env_key, use_input, start_timestamp,
                    end_timestamp, metadata_filters, result, output, image_ok,
                    text, images_left, run_status, status, turn >>

\* main(): filtered_messages = filter_messages(messages, start, end)
FilterMessages ==
    /\ tool = "created_date_filter" /\ pc = "filter"
    /\ LET r == filter_messages(messages, start_timestamp, end_timestamp)
       IN  IF r.raised # NoError
           THEN \* uncaught: the interpreter ends the process with status 1
                /\ raised' = r.raised
                /\ exit_code' = 1
                /\ pc' = "exited"
                /\ UNCHANGED result
           ELSE /\ result' = r.filtered
                /\ pc' = "output"
                /\ UNCHANGED << raised, exit_code >>
    /\ UNCHANGED << tool, cliVars, exportVars, demoVars, api_key, env_key, use_input, source_data, messages,
                    start_timestamp, end_timestamp, metadata_filters, fetch,
                    net_calls, output, err_log, image_ok, text,
           images_left, run_status,
                    status, turn >>

\* (variant: the count is taken of the unfiltered list)
OutputDataCountingInput(filtered_messages) ==
    [data |-> filtered_messages, count |-> Len(messages)]
\* output_data = {"data": filtered_messages, "count": len(filtered_messages)}
OutputData(filtered_messages) ==
    [data |-> filtered_messages, count |-> Len(filtered_messages)]

\* main(): output_data is written to args.output or printed
WriteOutput ==
    /\ tool = "created_date_filter" /\ pc = "output"
    /\ \E to_file \in BOOLEAN :
          LET output_data == OutputData(result)
          IN  output' = [target |-> IF to_file THEN "file" ELSE "stdout",
                         data |-> output_data.data,
                         count |-> output_data.count]
    /\ exit_code' = 0
    /\ pc' = "exited"
    /\ UNCHANGED << tool, cliVars, exportVars, demoVars, api_key, env_key, use_input, source_data, messages,
                    start_timestamp, end_timestamp, metadata_filters, result,
                    raised, fetch, net_calls, err_log, image_ok, text, images_left,
                    run_status, status, turn >>

----------------------------------------------------------------------------
(* metadata_filtering_openai_messages.py *)

MetaKeys == {"user_email", "tag"}
MetaValues == {"a@b.com", "x"}

\* Metadata mappings and constraint mappings: string-keyed, string-valued
Mappings == UNION {[K -> MetaValues] : K \in SUBSET MetaKeys}
EmptyMapping == CHOOSE m \in Mappings : DOMAIN m = {}

\* Messages of the metadata script: mappings with or without metadata
TaggedMessages ==
    {[id |-> "msg"]} \cup {[id |-> "msg", metadata |-> m] : m \in Mappings}

\* message.get("metadata", {})
GetMetadata(message) ==
    IF "metadata" \in DOMAIN message THEN message.metadata ELSE EmptyMapping

\* _matches_metadata_filters(message_metadata, filters): False at the first
\* filter whose key is missing or whose value differs, True otherwise
\* variants: one matching filter suffices; a missing key is not a mismatch
MatchesAnyFilter(message_metadata, filters) ==
    \E key \in DOMAIN filters :
        key \in DOMAIN message_metadata /\ message_metadata[key] = filters[key]
MatchesIgnoringMissing(message_metadata, filters) ==
    \A key \in DOMAIN filters :
        key \in DOMAIN message_metadata => message_metadata[key] = filters[key]
matches_metadata_filters(message_metadata, filters) ==
    ~ \E key \in DOMAIN filters :
          key \notin DOMAIN message_metadata
              \/ message_metadata[key] # filters[key]

\* the loop of get_messages over the fetched messages
RECURSIVE MetadataLoop(_, _, _)
MetadataLoop(filtered_messages, msgs, filters) ==
    IF msgs = << >> THEN filtered_messages
    ELSE LET message == Head(msgs)
             message_metadata == GetMetadata(message)
         IN  MetadataLoop(
                 IF matches_metadata_filters(message_metadata, filters)
                 THEN Append(filtered_messages, message)
                 ELSE filtered_messages,
                 Tail(msgs), filters)

\* `if metadata_filters:` is false for None and for the empty dict
Truthy(filters) == DOMAIN filters # {}

\* get_messages after a successful fetch: the value returned
SelectByMetadata(msgs, filters) ==
    IF Truthy(filters) THEN MetadataLoop(<< >>, msgs, filters) ELSE msgs

\* "limit": min(100, max(1, limit))
MinLimit == 1
MaxLimit == 100
\* (variant: only the upper end is clamped)
ClampLimitUpperOnly(l) == IF l > MaxLimit THEN MaxLimit ELSE l
ClampLimit(l) ==
    LET lower == IF l > MinLimit THEN l ELSE MinLimit
    IN  IF lower < MaxLimit THEN lower ELSE MaxLimit

\* --limit, type=int, default=100: values below, at and above both ends
Limits == {MinLimit - 2, MinLimit - 1, MinLimit, MinLimit + 1,
           MaxLimit - 1, MaxLimit, MaxLimit + 1}

\* main(): `if messages:` guards export_messages_to_json
\* (variant: the export is not guarded)
ShouldExportAlways(msgs) == TRUE
ShouldExport(msgs) == msgs # << >>

\* main() after the metadata arguments are parsed into a dict
InitMetadata ==
    /\ tool = "metadata_filtering"
    /\ pc = "client_init"
    /\ api_key \in Keys
    /\ env_key \in Keys
    /\ metadata_filters \in Mappings
    /\ use_input = FALSE
    /\ source_data = << >>
    /\ messages = << >>
    /\ start_timestamp = 0
    /\ end_timestamp = 0
    /\ result = << >>
    /\ fetch = "none"
    /\ output = NoOutput
    /\ IdleImageVars /\ IdleRunVars /\ NothingHappened
    /\ IdleCli /\ IdleDemo
    /\ limit \in Limits
    /\ sent_limit = 0
    /\ exports = 0

\* OpenAIMessageClient.__init__: self.api_key = api_key or os.environ.get(...)
ResolveKeyMetadata(arg, env) == IF Falsy(arg) THEN env ELSE arg
\* `if not self.api_key: raise ValueError`
KeyRejectedMetadata(key) == Falsy(key)

\* main(): client = OpenAIMessageClient(args.api_key); a ValueError is
\* caught by main's `except Exception` and printed
ClientInit ==
    /\ tool = "metadata_filtering" /\ pc = "client_init"
    /\ IF KeyRejectedMetadata(ResolveKeyMetadata(api_key, env_key))
       THEN /\ raised' = "ValueError"
            /\ err_log' = TRUE
            /\ exit_code' = 0
            /\ pc' = "exited"
       ELSE /\ pc' = "get_messages"
            /\ UNCHANGED << raised, err_log, exit_code >>
    /\ UNCHANGED << tool, cliVars, exportVars, demoVars, api_key, env_key, use_input, source_data, messages,
                    start_timestamp, end_timestamp, metadata_filters, result,
                    fetch, net_calls, output, image_ok, text, images_left, run_status,
                    status, turn >>

\* what get_messages returns when requests raises RequestException
\* (variant: the body of the failed response is handed back)
OnRequestExceptionPartial(msgs) == msgs
OnRequestException(msgs) == << >>

\* OpenAIMessageClient.get_messages: one GET with the clamped limit, then the metadata filter; a
\* RequestException is printed and [] is returned
GetMessages ==
    /\ tool = "metadata_filtering" /\ pc = "get_messages"
    /\ net_calls' = net_calls + 1
    /\ \/ \* requests.get, raise_for_status or response.json() raises; the
          \* server may have answered with an error status and a body
          /\ \E body \in SeqsUpTo(TaggedMessages, 1) :
                /\ source_data' = body
                /\ result' = OnRequestException(body)
          /\ fetch' = "failed"
          /\ err_log' = TRUE
          /\ UNCHANGED messages
       \/ \* messages = data.get("data", [])
          /\ \E body \in SeqsUpTo(TaggedMessages, MaxLen) :
                /\ source_data' = body
                /\ messages' = body
                /\ result' = SelectByMetadata(body, metadata_filters)
          /\ fetch' = "ok"
          /\ UNCHANGED err_log
    /\ sent_limit' = ClampLimit(limit)
    /\ pc' = "report"
    /\ UNCHANGED << tool, cliVars, limit, exports, demoVars, api_key, env_key, use_input, start_timestamp,
                    end_timestamp, metadata_filters, raised, exit_code, output,
                    image_ok, text, images_left, run_status, status, turn >>

\* main(): `if messages:` export_messages_to_json, else "No messages found"
Report ==
    /\ tool = "metadata_filtering" /\ pc = "report"
    /\ IF ShouldExport(result)
       THEN /\ output' = [target |-> "file", data |-> result,
                          count |-> Len(result)]
            /\ exports' = exports + 1
       ELSE UNCHANGED << output, exports >>
    /\ exit_code' = 0
    /\ pc' = "exited"
    /\ UNCHANGED << tool, cliVars, limit, sent_limit, demoVars, api_key, env_key, use_input, source_data, messages,
                    start_timestamp, end_timestamp, metadata_filters, result,
                    raised, fetch, net_calls, err_log, image_ok, text, images_left,
                    run_status, status, turn >>

----------------------------------------------------------------------------
(* thread_demo.py *)

filterVars == << use_input, source_data, messages, start_timestamp,
                 end_timestamp, metadata_filters, result, fetch, output >>
credVars == << api_key, env_key >>
imageVars == << image_ok, text, images_left >>

\* main() runs the same four steps three times
Turns == 3

\* the statuses wait_for_run_completion names
FailedStatuses == {"failed", "cancelled", "expired"}
TerminalStatuses == {"completed"} \cup FailedStatuses
\* the statuses of a run that is still going
NonTerminalStatuses == {"queued", "in_progress"}

\* f"Run ended with status: {run.status}"
RunEnded(st) ==
    CASE st = "failed" -> "Run ended with status: failed"
      [] st = "cancelled" -> "Run ended with status: cancelled"
      [] st = "expired" -> "Run ended with status: expired"
      [] OTHER -> "Run ended with status: ?"

\* the module-level client and main() before its first call
InitThreadDemo ==
    /\ tool = "thread_demo"
    /\ pc = "create_assistant"
    /\ IdleCredentials /\ IdleFilterVars /\ IdleImageVars /\ IdleRunVars
    /\ NothingHappened
    /\ IdleCli /\ IdleExport /\ IdleDemo

\* an openai call raises (connection, authentication, server error): main
\* catches nothing and the interpreter ends the process
ApiCallRaises ==
    /\ raised' = "APIError"
    /\ exit_code' = 1
    /\ pc' = "exited"

\* assistant = create_assistant()
CreateAssistant ==
    /\ tool = "thread_demo" /\ pc = "create_assistant"
    /\ \/ ApiCallRaises
       \/ pc' = "create_thread" /\ UNCHANGED << raised, exit_code >>
    /\ UNCHANGED << tool, cliVars, exportVars, demoVars, credVars, filterVars, imageVars, net_calls, err_log,
                    run_status, status, turn >>

\* thread = create_thread()
CreateThread ==
    /\ tool = "thread_demo" /\ pc = "create_thread"
    /\ \/ ApiCallRaises /\ UNCHANGED turn
       \/ pc' = "add_message" /\ turn' = 1 /\ UNCHANGED << raised, exit_code >>
    /\ UNCHANGED << tool, cliVars, exportVars, demoVars, credVars, filterVars, imageVars, net_calls, err_log,
                    run_status, status >>

\* add_message_to_thread(thread.id, message_content)
AddMessage ==
    /\ tool = "thread_demo" /\ pc = "add_message"
    /\ \/ ApiCallRaises /\ UNCHANGED posted
       \/ /\ posted' = posted + 1
          /\ pc' = "run_assistant"
          /\ UNCHANGED << raised, exit_code >>
    /\ UNCHANGED << tool, cliVars, exportVars, started, listed, credVars,
                    filterVars, imageVars, net_calls, err_log,
                    run_status, status, turn >>

\* run = run_assistant(thread.id, assistant.id): the server queues a run;
\* wait_for_run_completion is entered with nothing retrieved yet
RunAssistant ==
    /\ tool = "thread_demo" /\ pc = "run_assistant"
    /\ \/ ApiCallRaises /\ UNCHANGED << run_status, status, started >>
       \/ /\ run_status' = "queued"
          /\ status' = "none"
          /\ started' = started + 1
          /\ pc' = "retrieve"
          /\ UNCHANGED << raised, exit_code >>
    /\ UNCHANGED << tool, cliVars, exportVars, posted, listed, credVars, filterVars, imageVars, net_calls, err_log,
                    turn >>

\* What wait_for_run_completion does with the status it has retrieved:
\* return, raise, or print, sleep and poll again
\* (variants: in_progress, or expired, taken for success)
AfterRetrieveReturnEarly(st) ==
    IF st \in {"completed", "in_progress"} THEN "return"
    ELSE IF st \in FailedStatuses THEN "raise"
    ELSE "sleep"
AfterRetrieveReturnOnExpired(st) ==
    IF st \in {"completed", "expired"} THEN "return"
    ELSE IF st \in FailedStatuses THEN "raise"
    ELSE "sleep"
AfterRetrieve(st) ==
    IF st = "completed" THEN "return"
    ELSE IF st \in FailedStatuses THEN "raise"
    ELSE "sleep"

\* wait_for_run_completion, one iteration up to the sleep: retrieve the run,
\* then branch on run.status
RetrieveRun ==
    /\ tool = "thread_demo" /\ pc = "retrieve"
    /\ \/ ApiCallRaises /\ UNCHANGED status
       \/ /\ status' = run_status
          /\ LET todo == AfterRetrieve(run_status)
             IN  \/ /\ todo = "return"
                    /\ pc' = "returned"
                    /\ UNCHANGED << raised, exit_code >>
                 \/ /\ todo = "raise"
                    /\ raised' = RunEnded(run_status)
                    /\ exit_code' = 1
                    /\ pc' = "exited"
                 \/ /\ todo = "sleep"
                    /\ pc' = "sleep"
                    /\ UNCHANGED << raised, exit_code >>
    /\ UNCHANGED << tool, cliVars, exportVars, demoVars, credVars, filterVars, imageVars, net_calls, err_log,
                    run_status, turn >>

\* time.sleep(2), then the next iteration of `while True`
Sleep ==
    /\ tool = "thread_demo" /\ pc = "sleep"
    /\ pc' = "retrieve"
    /\ UNCHANGED << tool, cliVars, exportVars, demoVars, credVars, filterVars, imageVars, raised, net_calls,
                    exit_code, err_log, run_status, status, turn >>

\* messages = get_messages(thread.id), after "Run completed" is printed
ListMessages ==
    /\ tool = "thread_demo" /\ pc = "returned"
    /\ \/ ApiCallRaises /\ UNCHANGED listed
       \/ /\ listed' = listed + 1
          /\ pc' = "display"
          /\ UNCHANGED << raised, exit_code >>
    /\ UNCHANGED << tool, cliVars, exportVars, posted, started, credVars,
                    filterVars, imageVars, net_calls, err_log,
                    run_status, status, turn >>

\* display_message_data(messages), then the next turn or the end of main
DisplayMessages ==
    /\ tool = "thread_demo" /\ pc = "display"
    /\ IF turn < Turns
       THEN pc' = "add_message" /\ turn' = turn + 1 /\ UNCHANGED exit_code
       ELSE pc' = "exited" /\ exit_code' = 0 /\ UNCHANGED turn
    /\ UNCHANGED << tool, cliVars, exportVars, demoVars, credVars, filterVars, imageVars, raised, net_calls,
                    err_log, run_status, status >>

\* The server works on the run: a queued run starts or ends, a run in
\* progress ends; a run that has ended keeps its status
ServerStep ==
    /\ tool = "thread_demo"
    /\ \/ run_status = "queued"
          /\ run_status' \in {"in_progress"} \cup TerminalStatuses
       \/ run_status = "in_progress" /\ run_status' \in TerminalStatuses
    /\ UNCHANGED << tool, cliVars, exportVars, demoVars, pc, credVars, filterVars, imageVars, raised,
                    net_calls, exit_code, err_log, status, turn >>

\* the steps of the script thread_demo.py
ThreadDemoStep ==
    \/ CreateAssistant \/ CreateThread \/ AddMessage \/ RunAssistant
    \/ RetrieveRun \/ Sleep \/ ListMessages \/ DisplayMessages

----------------------------------------------------------------------------
(* image_to_text.py *)

otherVars == << use_input, source_data, messages, start_timestamp,
                end_timestamp, metadata_filters, result, output, run_status,
                status, turn >>

\* response.choices[0].message.content
Contents == {"extracted text", ""}

\* main() after parser.parse_args()
InitImageToText ==
    /\ tool = "image_to_text"
    /\ pc = "check_key"
    /\ api_key \in Keys
    /\ env_key \in Keys
    /\ image_ok \in BOOLEAN
    /\ text = None
    /\ images_left = 1
    /\ IdleFilterVars /\ IdleRunVars /\ NothingHappened
    /\ IdleCli /\ IdleExport /\ IdleDemo

\* extract_text_from_image: `if api_key is None: api_key = os.environ.get(...)`
ResolveKeyImage(arg, env) == IF arg = None THEN env ELSE arg
\* `if api_key is None: raise ValueError`, reached only when the argument
\* is None
KeyRejectedImage(key) == key = None

\* extract_text_from_image up to client = OpenAI(api_key=api_key); main
\* catches the ValueError and prints it
CheckKey ==
    /\ tool = "image_to_text" /\ pc = "check_key"
    /\ IF KeyRejectedImage(ResolveKeyImage(api_key, env_key))
       THEN /\ raised' = "ValueError"
            /\ err_log' = TRUE
            /\ exit_code' = 0
            /\ pc' = "exited"
       ELSE /\ pc' = "encode"
            /\ UNCHANGED << raised, err_log, exit_code >>
    /\ UNCHANGED << tool, cliVars, exportVars, demoVars, credVars, otherVars, imageVars, fetch, net_calls >>

\* base64_image = encode_image_to_base64(image_path): open() raises for a
\* file that cannot be read, and main catches and prints it
EncodeImage ==
    /\ tool = "image_to_text" /\ pc = "encode"
    /\ IF image_ok
       THEN pc' = "call" /\ UNCHANGED << raised, err_log, exit_code >>
       ELSE /\ raised' = "OSError"
            /\ err_log' = TRUE
            /\ exit_code' = 0
            /\ pc' = "exited"
    /\ UNCHANGED << tool, cliVars, exportVars, demoVars, credVars, otherVars, imageVars, fetch, net_calls >>

\* client.chat.completions.create(...) and `return result`.  With an empty
\* key the openai library either fails while building the request or sends
\* it without credentials; either way the call raises an API error.
CallVision ==
    /\ tool = "image_to_text" /\ pc = "call"
    /\ LET key == ResolveKeyImage(api_key, env_key)
       IN  \/ \* the request is sent and answered
              /\ key # ""
              /\ net_calls' = net_calls + 1
              /\ fetch' = "ok"
              /\ text' \in Contents
              /\ pc' = "print"
              /\ UNCHANGED << raised, err_log, exit_code >>
           \/ \* the request is sent and fails (client, rate-limit or
              \* transport error): the exception reaches main, which
              \* prints it
              /\ net_calls' = net_calls + 1
              /\ fetch' = "failed"
              /\ raised' = "APIError"
              /\ err_log' = TRUE
              /\ exit_code' = 0
              /\ pc' = "exited"
              /\ UNCHANGED text
           \/ \* the library refuses the empty key before sending
              /\ key = ""
              /\ fetch' = "failed"
              /\ raised' = "APIError"
              /\ err_log' = TRUE
              /\ exit_code' = 0
              /\ pc' = "exited"
              /\ UNCHANGED << text, net_calls >>
    /\ UNCHANGED << tool, cliVars, exportVars, demoVars, credVars, otherVars, image_ok, images_left >>

\* main(): print(json.dumps(result)) and the optional output file
PrintResult ==
    /\ tool = "image_to_text" /\ pc = "print"
    /\ exit_code' = 0
    /\ pc' = "exited"
    /\ UNCHANGED << tool, cliVars, exportVars, demoVars, credVars, otherVars, imageVars, raised, fetch,
                    net_calls, err_log >>

----------------------------------------------------------------------------
(* doc_reader.py *)

\* main() before os.getenv: the images found in test_images
InitDocReader ==
    /\ tool = "doc_reader"
    /\ pc = "check_key"
    /\ api_key = None
    /\ env_key \in Keys
    /\ image_ok = TRUE
    /\ text = None
    /\ images_left \in 0 .. MaxImages
    /\ IdleFilterVars /\ IdleRunVars /\ NothingHappened
    /\ IdleCli /\ IdleExport /\ IdleDemo

\* main(): `if not api_key: raise ValueError`
KeyRejectedDocReader(key) == Falsy(key)

\* main() up to the loop: the key check (an uncaught ValueError), the
\* client, and the return when there is no image to process
DocReaderStart ==
    /\ tool = "doc_reader" /\ pc = "check_key"
    /\ IF KeyRejectedDocReader(env_key)
       THEN /\ raised' = "ValueError"
            /\ exit_code' = 1
            /\ pc' = "exited"
       ELSE IF images_left = 0
       THEN /\ exit_code' = 0
            /\ pc' = "exited"
            /\ UNCHANGED raised
       ELSE /\ pc' = "encode"
            /\ UNCHANGED << raised, exit_code >>
    /\ UNCHANGED << tool, cliVars, exportVars, demoVars, credVars, otherVars, imageVars, fetch, net_calls,
                    err_log >>

\* extract_id_text: the image is opened and encoded before the try
\* statement, so a file that cannot be read raises out of extract_id_text
\* and out of main
ReadIdImage ==
    /\ tool = "doc_reader" /\ pc = "encode"
    /\ \E readable \in BOOLEAN :
          /\ image_ok' = readable
          /\ IF readable
             THEN pc' = "call" /\ UNCHANGED << raised, exit_code >>
             ELSE /\ raised' = "OSError"
                  /\ exit_code' = 1
                  /\ pc' = "exited"
    /\ UNCHANGED << tool, cliVars, exportVars, demoVars, credVars, otherVars, text, images_left, fetch,
                    net_calls, err_log >>

\* extract_id_text: the try statement around client.chat.completions.create;
\* on RateLimitError, APIError or any other exception it prints and returns
\* None
CallVisionId ==
    /\ tool = "doc_reader" /\ pc = "call"
    /\ net_calls' = net_calls + 1
    /\ \/ /\ fetch' = "ok"
          /\ text' \in Contents
          /\ pc' = "save"
          /\ UNCHANGED << raised, err_log, exit_code >>
       \/ /\ fetch' = "failed"
          /\ err_log' = TRUE
          /\ text' = None
          /\ pc' = "save"
          /\ UNCHANGED << raised, exit_code >>
    /\ UNCHANGED << tool, cliVars, exportVars, demoVars, credVars, otherVars, image_ok, images_left >>

\* main(): `if result:` write the text file, then the next image
SaveText ==
    /\ tool = "doc_reader" /\ pc = "save"
    /\ images_left' = images_left - 1
    /\ IF images_left' = 0
       THEN pc' = "exited" /\ exit_code' = 0
       ELSE pc' = "encode" /\ UNCHANGED exit_code
    /\ UNCHANGED << tool, cliVars, exportVars, demoVars, credVars, otherVars, image_ok, text, raised, fetch,
                    net_calls, err_log >>

----------------------------------------------------------------------------
Init ==
    \/ InitCreatedDate \/ InitMetadata \/ InitThreadDemo
    \/ InitImageToText \/ InitDocReader

Next ==
    \/ ParseStart \/ ParseEnd
    \/ LoadInput \/ FetchFromApi \/ FilterMessages \/ WriteOutput
    \/ ClientInit \/ GetMessages \/ Report
    \/ ThreadDemoStep \/ ServerStep
    \/ CheckKey \/ EncodeImage \/ CallVision \/ PrintResult
    \/ DocReaderStart \/ ReadIdImage \/ CallVisionId \/ SaveText

Spec == Init /\ [][Next]_vars

\* The thread demo alone.  The script is sequential code that keeps
\* running: every call returns or raises and every sleep ends.  Nothing
\* obliges the server to ever finish a run.
ThreadDemoNext == ThreadDemoStep \/ ServerStep
ThreadDemoSpec ==
    InitThreadDemo /\ [][ThreadDemoNext]_vars /\ WF_vars(ThreadDemoStep)

-----
(* Properties of the two filters *)

\* the timestamp filter has just returned
TimestampFiltered == tool = "created_date_filter" /\ pc = "output"
\* get_messages has just returned after a successful fetch
MetadataFiltered ==
    tool = "metadata_filtering" /\ pc = "report" /\ fetch = "ok"

HasCreatedAt(m) == "created_at" \in DOMAIN m /\ m.created_at # NoCreatedAt
WithinBounds(m) ==
    HasCreatedAt(m)
        /\ start_timestamp <= m.created_at /\ m.created_at <= end_timestamp

\* every constraint key is in the message's metadata with an equal value
SatisfiesConstraints(m, F) ==
    \A k \in DOMAIN F :
        /\ "metadata" \in DOMAIN m
        /\ k \in DOMAIN m.metadata
        /\ m.metadata[k] = F[k]

\* r can be obtained from m by deleting elements
IsSubsequence(r, m) ==
    /\ Len(r) <= Len(m)
    /\ \E f \in [1 .. Len(r) -> 1 .. Len(m)] :
          /\ \A i, j \in 1 .. Len(r) : i < j => f[i] < f[j]
          /\ \A i \in 1 .. Len(r) : r[i] = m[f[i]]

\* the mapping F with the constraint (k, v) added
Extend(F, k, v) == [x \in DOMAIN F \cup {k} |-> IF x = k THEN v ELSE F[x]]

(* C1: filter_messages returns exactly the messages whose created_at is
   present and satisfies start <= created_at <= end, both ends inclusive; a
   message without created_at is left out whatever the bounds are, and the
   filter raises no error on it. *)
C1_InclusiveRange ==
    tool = "created_date_filter" =>
        /\ raised # "TypeError"
        /\ pc = "output" =>
              result = SelectSeq(messages, LAMBDA m : WithinBounds(m))

\* a run where a message sits on each bound, one lies outside and one has
\* no created_at
C1_Witness ==
    /\ TimestampFiltered
    /\ start_timestamp < end_timestamp
    /\ \E i, j, k \in 1 .. Len(messages) :
          /\ HasCreatedAt(messages[i]) /\ messages[i].created_at = end_timestamp
          /\ HasCreatedAt(messages[j]) /\ messages[j].created_at = start_timestamp
          /\ "created_at" \notin DOMAIN messages[k]
    /\ Len(result) = 2

(* C2: with a non-empty constraint mapping, get_messages on a successful
   fetch returns exactly the messages whose metadata holds every constraint
   key with an equal value; a message whose metadata lacks a constraint key,
   or that has no metadata, is left out and no error is raised. *)
C2_MetadataExact ==
    (MetadataFiltered /\ DOMAIN metadata_filters # {}) =>
        /\ raised = NoError
        /\ result = SelectSeq(messages,
                LAMBDA m : SatisfiesConstraints(m, metadata_filters))

\* a run with a matching message, one lacking a constraint key and one
\* without metadata
C2_Witness ==
    /\ MetadataFiltered
    /\ DOMAIN metadata_filters = MetaKeys
    /\ \E i, j, k \in 1 .. Len(messages) :
          /\ SatisfiesConstraints(messages[i], metadata_filters)
          /\ "metadata" \in DOMAIN messages[j]
          /\ DOMAIN messages[j].metadata # MetaKeys
          /\ "metadata" \notin DOMAIN messages[k]
    /\ Len(result) = 1

(* C3: the result of the timestamp filter and of the metadata filter is a
   subsequence of the input: each returned message is an element of the
   input, none is duplicated or invented, and the input's order is kept. *)
C3_Subsequence ==
    (TimestampFiltered \/ MetadataFiltered) => IsSubsequence(result, messages)

\* a run that keeps two different messages and drops another
C3_Witness ==
    /\ TimestampFiltered
    /\ Len(result) = 2 /\ result[1] # result[2]
    /\ Len(messages) > 2

\* every timestamp of the list lies within the bounds
CoversAllTime ==
    \A i \in 1 .. Len(messages) :
        HasCreatedAt(messages[i]) =>
            /\ start_timestamp <= messages[i].created_at
            /\ messages[i].created_at <= end_timestamp

(* C4 as stated: filtering any message sequence with an empty constraint
   mapping, or with bounds that cover every timestamp, returns the original
   sequence. *)
C4_RoundTripAnySequence ==
    /\ (MetadataFiltered /\ DOMAIN metadata_filters = {}) => result = messages
    /\ (TimestampFiltered /\ CoversAllTime) => result = messages

(* C4, amended: the empty constraint mapping returns the original sequence;
   bounds that cover every timestamp return, in the original order, every
   message that has a created_at, which is the original sequence when every
   message has one. *)
C4_RoundTrip ==
    /\ (MetadataFiltered /\ DOMAIN metadata_filters = {}) => result = messages
    /\ (TimestampFiltered /\ CoversAllTime) =>
          /\ result = SelectSeq(messages, LAMBDA m : HasCreatedAt(m))
          /\ (\A i \in 1 .. Len(messages) : HasCreatedAt(messages[i])) =>
                result = messages

\* a run over messages that all have a created_at, the smallest and the
\* largest of them equal to the bounds
C4_Witness ==
    /\ TimestampFiltered /\ CoversAllTime
    /\ Len(messages) >= 2
    /\ \A i \in 1 .. Len(messages) : HasCreatedAt(messages[i])
    /\ \E i, j \in 1 .. Len(messages) :
          /\ messages[i].created_at = start_timestamp
          /\ messages[j].created_at = end_timestamp
          /\ start_timestamp < end_timestamp
    /\ result = messages

(* C5: the metadata filter is monotonic: for the fetched list, the
   constraint mapping F of the call and any extra constraint (k, v) with k
   not in F, filtering with F plus (k, v) gives a subsequence of the result
   for F, so no more messages; F may be the empty mapping. *)
C5_Monotonic ==
    MetadataFiltered =>
        \A k \in MetaKeys \ DOMAIN metadata_filters, v \in MetaValues :
            LET more == SelectByMetadata(messages,
                                         Extend(metadata_filters, k, v))
            IN  IsSubsequence(more, result) /\ Len(more) <= Len(result)

\* a run with one constraint where the added constraint removes a message
C5_Witness ==
    /\ MetadataFiltered
    /\ Cardinality(DOMAIN metadata_filters) = 1
    /\ Len(result) = 2
    /\ \E k \in MetaKeys \ DOMAIN metadata_filters, v \in MetaValues :
          Len(SelectByMetadata(messages, Extend(metadata_filters, k, v))) = 1

----------------------------------------------------------------------------
(* Properties of the polling loop *)

\* inside wait_for_run_completion
InWait == tool = "thread_demo" /\ pc \in {"retrieve", "sleep"}

RunEndedMessages == {RunEnded(st) : st \in FailedStatuses}

\* what holds of wait_for_run_completion's outcome in every state
PollOutcome ==
    tool = "thread_demo" =>
        /\ pc = "returned" => status = "completed"
        /\ raised \in RunEndedMessages =>
              status \in FailedStatuses /\ raised = RunEnded(status)
        /\ InWait => status \notin TerminalStatuses

\* what holds of every step of wait_for_run_completion
PollStep ==
    tool = "thread_demo" =>
        /\ (pc = "retrieve" /\ pc' # pc /\ raised' # "APIError"
                /\ run_status \notin TerminalStatuses) =>
              pc' = "sleep" /\ raised' = raised /\ status' = run_status
        /\ (pc = "sleep" /\ pc' # pc) => pc' = "retrieve"
        /\ (pc # "returned" /\ pc' = "returned") =>
              pc = "retrieve" /\ status' = "completed"
        /\ (raised \notin RunEndedMessages /\ raised' \in RunEndedMessages) =>
              pc = "retrieve" /\ status' \in FailedStatuses

(* C6: wait_for_run_completion returns only after it has observed the
   status completed, and raises the error that carries the observed status
   only after it has observed failed, cancelled or expired; on any other
   observed status it does neither and sleeps and polls again; once it has
   observed a terminal status it retrieves the run no more. *)
C6_PollUntilTerminal == [] PollOutcome /\ [][PollStep]_vars

\* the first turn's run completed and the second turn's run was seen
\* cancelled: the error carries that status and the script has ended
C6_Witness ==
    /\ tool = "thread_demo" /\ turn = 2
    /\ raised = RunEnded("cancelled") /\ status = "cancelled"
    /\ pc = "exited"

(* C7: if the server's run reaches one of the statuses completed, failed,
   cancelled, expired, wait_for_run_completion eventually ends (it returns
   or raises); if the run stays queued or in progress for ever and every
   retrieval succeeds, the script stays in the loop for ever: there is no
   attempt limit and no deadline. *)
C7_PollTermination ==
    /\ (InWait /\ run_status \in TerminalStatuses) ~> ~ InWait
    /\ (<>[](run_status \in NonTerminalStatuses) /\ [](raised # "APIError"))
           => <>[] InWait

\* the loop has seen the run in progress, is asleep, and the run has ended
C7_Witness ==
    /\ InWait /\ pc = "sleep"
    /\ status = "in_progress"
    /\ run_status \in FailedStatuses

----------------------------------------------------------------------------
(* Properties of the error handling *)

\* the execution is one that calls the API
CallsApi ==
    \/ tool \in {"metadata_filtering", "image_to_text", "doc_reader"}
    \/ tool = "created_date_filter" /\ ~ use_input

(* C8: in every tool that calls the API, when no key is given by argument
   and the environment holds none (absent or empty), a configuration error
   (ValueError) is raised and no network call is issued. *)
C8_MissingKeyFailsFast ==
    (CallsApi /\ api_key = None /\ Falsy(env_key)) =>
        /\ net_calls = 0
        /\ pc = "exited" => raised = "ValueError"

(* C9: image text extraction never raises to its caller: it returns the
   text of the completion, or on a failure it logs the failure and returns
   None. *)
C9_ExtractionNeverRaises ==
    tool \in {"image_to_text", "doc_reader"} =>
        /\ raised \notin {"APIError", "OSError"}
        /\ fetch = "failed" => err_log /\ text = None

(* C10: a transport failure while fetching messages does not escape and
   yields no filtered data: OpenAIMessageClient.get_messages returns the
   empty list, and the timestamp script reports the error and exits with
   status 1 with no output document written or printed. *)
C10_FetchFailureContained ==
    /\ (tool = "metadata_filtering" /\ fetch = "failed") =>
          result = << >> /\ raised = NoError /\ err_log
    /\ (tool = "created_date_filter" /\ fetch = "failed") =>
          /\ pc = "exited" /\ exit_code = 1 /\ err_log
          /\ output = NoOutput /\ result = << >>

\* get_messages has returned after a failed request whose response had a
\* body, with constraints given
C10_Witness ==
    /\ tool = "metadata_filtering" /\ fetch = "failed" /\ pc = "report"
    /\ source_data # << >>
    /\ DOMAIN metadata_filters # {}

----------------------------------------------------------------------------
(* Properties of the timestamp script's command line and output *)

\* the number of seconds a well-formed argument stands for
SecondsOf(arg) ==
    IF arg \in DecimalArgs
    THEN CHOOSE n \in BoundValues : arg = << Digits[n + 1] >>
    ELSE CHOOSE n \in 0 .. 9 : arg[2] = Digits[n + 1]

\* the script has read its input file, called the API or produced output
SourceTouched ==
    \/ input_shape # "none" \/ net_calls > 0 \/ fetch # "none"
    \/ source_data # << >> \/ messages # << >>
    \/ output # NoOutput

(* C11: a --start or --end value that is neither a decimal integer string
   nor an ISO-8601 string ends the timestamp script with a ValueError before
   any input file is read, any API call is made and any output is written
   or printed; both bounds are parsed before the message source is
   touched. *)
C11_MalformedBoundStops ==
    tool = "created_date_filter" =>
        /\ (args_start \in MalformedArgs \/ args_end \in MalformedArgs) =>
              /\ pc \in {"parse_start", "parse_end", "exited"}
              /\ ~ SourceTouched
              /\ pc = "exited" => raised = "ValueError" /\ exit_code = 1
        /\ (SourceTouched \/ pc \in {"get_messages", "filter", "output"}) =>
              /\ start_timestamp = SecondsOf(args_start)
              /\ end_timestamp = SecondsOf(args_end)

\* --start is well formed, --end is not, an input file is named: the script
\* has ended on the second parse_timestamp call
C11_Witness ==
    /\ tool = "created_date_filter" /\ use_input
    /\ args_start \in IsoArgs /\ args_end \in MalformedArgs
    /\ pc = "exited" /\ raised = "ValueError"
    /\ start_timestamp = 1

(* C12: whenever the timestamp script produces output, on stdout or in the
   --output file, the output is an object {"data": D, "count": N} where D
   is exactly the filtered list of the messages read and N is the number
   of elements of D, for an input file that is a bare array and for one
   that is a {"data": [...]} wrapper. *)
C12_OutputDocument ==
    (tool = "created_date_filter" /\ output # NoOutput) =>
        /\ output.target \in {"stdout", "file"}
        /\ output.data = SelectSeq(source_data, LAMBDA m : WithinBounds(m))
        /\ output.count = Len(output.data)
        /\ use_input => input_shape \in {"array", "wrapper"}

\* a wrapper file of three messages, two of them within the bounds, written
\* to the output file
C12_Witness ==
    /\ tool = "created_date_filter" /\ pc = "exited"
    /\ input_shape = "wrapper"
    /\ Len(source_data) = 3
    /\ output.target = "file" /\ output.count = 2

\* the same for a bare array printed to stdout
C12_WitnessArray ==
    /\ tool = "created_date_filter" /\ pc = "exited"
    /\ input_shape = "array"
    /\ Len(source_data) = 3
    /\ output.target = "stdout" /\ output.count = 2

(* C14: the limit sent to the API is always in 1..100: it is the limit
   passed when that is in 1..100, 1 when the limit passed is below 1, and
   100 when it is above 100. *)
C14_LimitClamped ==
    (tool = "metadata_filtering" /\ net_calls > 0) =>
        /\ sent_limit \in 1..100
        /\ (1 <= limit /\ limit <= 100) => sent_limit = limit
        /\ limit < 1 => sent_limit = 1
        /\ limit > 100 => sent_limit = 100

\* a request was sent for a limit below 1
C14_Witness ==
    /\ tool = "metadata_filtering" /\ net_calls = 1 /\ fetch = "ok"
    /\ limit = -1 /\ sent_limit = 1

\* a request was sent for a limit above 100
C14_WitnessAbove ==
    /\ tool = "metadata_filtering" /\ net_calls = 1
    /\ limit = 101 /\ sent_limit = 100

(* C15: the metadata script writes an export file if and only if the list
   get_messages returned is non-empty: nothing is written when the list is
   empty, whether nothing matched or the fetch failed, and a non-empty
   list is exported exactly once, as it is. *)
C15_ExportIffNonEmpty ==
    tool = "metadata_filtering" =>
        /\ exports \in {0, 1}
        /\ (output # NoOutput) <=> (exports = 1)
        /\ pc # "exited" => exports = 0
        /\ pc = "exited" => ((exports = 1) <=> (result # << >>))
        /\ exports = 1 =>
              /\ fetch = "ok"
              /\ result = SelectByMetadata(source_data, metadata_filters)
              /\ output = [target |-> "file", data |-> result,
                           count |-> Len(result)]
        /\ fetch = "failed" => output = NoOutput

\* messages were fetched, none matched the filters, and the script ended
\* without an export
C15_Witness ==
    /\ tool = "metadata_filtering" /\ pc = "exited"
    /\ fetch = "ok" /\ Len(source_data) = 2
    /\ result = << >> /\ exports = 0 /\ output = NoOutput

\* messages were fetched, some matched, and they were exported
C15_WitnessExported ==
    /\ tool = "metadata_filtering" /\ pc = "exited"
    /\ fetch = "ok" /\ Len(source_data) = 3
    /\ Len(result) = 1 /\ exports = 1 /\ output.data = result

----------------------------------------------------------------------------
(* Properties of the order of the thread demo's calls *)

\* how many messages, runs and transcripts there are at each place of main
DemoProgress ==
    tool = "thread_demo" =>
        /\ listed <= started /\ started <= posted /\ posted <= listed + 1
        /\ posted <= Turns
        /\ pc \in {"create_assistant", "create_thread"} =>
              turn = 0 /\ posted = 0
        /\ pc = "add_message" => posted = turn - 1 /\ listed = posted
        /\ pc = "run_assistant" => posted = turn /\ started = turn - 1
        /\ pc \in {"retrieve", "sleep", "returned"} =>
              started = turn /\ listed = turn - 1
        /\ pc = "display" => listed = turn
        /\ pc = "returned" => run_status = "completed"

\* a run seen failed, cancelled or expired ends the script in that turn,
\* before the transcript of the turn is listed
DemoAborted ==
    (tool = "thread_demo" /\ raised \in RunEndedMessages) =>
        /\ pc = "exited" /\ exit_code = 1
        /\ run_status \in FailedStatuses
        /\ posted = turn /\ started = turn /\ listed = turn - 1

\* what holds of every step of main
DemoStep ==
    tool = "thread_demo" =>
        /\ (pc = "create_assistant" /\ pc' # pc) =>
              pc' \in {"create_thread", "exited"}
        /\ (pc = "create_thread" /\ pc' # pc) =>
              pc' \in {"add_message", "exited"}
        /\ posted' # posted =>
              /\ posted' = posted + 1 /\ listed = posted
              /\ pc = "add_message" /\ pc' = "run_assistant"
              /\ posted > 0 => run_status = "completed"
              /\ started' = started /\ listed' = listed
        /\ started' # started =>
              /\ started' = started + 1 /\ posted = started + 1
              /\ pc = "run_assistant" /\ pc' = "retrieve"
              /\ posted' = posted /\ listed' = listed
        /\ listed' # listed =>
              /\ listed' = listed + 1 /\ started = listed + 1
              /\ run_status = "completed" /\ status = "completed"
              /\ pc = "returned" /\ pc' = "display"
              /\ posted' = posted /\ started' = started
        /\ pc = "exited" =>
              /\ pc' = pc /\ turn' = turn
              /\ posted' = posted /\ started' = started /\ listed' = listed

(* C13: the thread demo makes its calls one at a time in a fixed order:
   create assistant, create thread, then in each of the three turns post
   the message, start the run, poll the run, and only then list and
   display the messages. A run is started only after its message is
   posted, the messages are listed only when the run is completed, and a
   run that ends failed, cancelled or expired ends the script, so that no
   later turn is executed. *)
C13_DemoOrder == [] (DemoProgress /\ DemoAborted) /\ [][DemoStep]_vars

\* the first turn was listed, the second turn's run failed, and the script
\* ended with two messages posted, two runs started and one transcript
C13_Witness ==
    /\ tool = "thread_demo" /\ pc = "exited" /\ turn = 2
    /\ raised = RunEnded("failed")
    /\ posted = 2 /\ started = 2 /\ listed = 1

\* all three turns were posted, run, polled and listed
C13_WitnessAllTurns ==
    /\ tool = "thread_demo" /\ pc = "exited" /\ exit_code = 0
    /\ posted = Turns /\ started = Turns /\ listed = Turns

====
